---- MODULE Spec2Model ----
(***************************************************************************)
(* The EcoFlow API gateway (src/api-gateway/main.py) as a state machine.   *)
(*                                                                         *)
(* Every inbound request is an independent asyncio task.  A task yields    *)
(* only at an awaited outbound HTTP call, so one action of the model is    *)
(* the code a task runs between two awaits: it consumes the answer to the  *)
(* call it was suspended on and runs up to the next awaited call or to the *)
(* end of the handler.  The backends are the environment: the answer to a  *)
(* call is drawn from the set of answers httpx can hand back (a response   *)
(* with a status and a body, or a transport exception).                    *)
(***************************************************************************)
EXTENDS Integers, Sequences, FiniteSets, TLC

VARIABLES
    pc,                \* Reqs -> position of the task handling the request
    op,                \* Reqs -> the route: "create_project" | "get_dashboard"
    credentials,       \* Reqs -> bearer credential of the request ("" = none)
    project_data,      \* Reqs -> the caller's JSON body (create_project)
    verify_response,   \* Reqs -> `response` of verify_token (auth's answer)
    user_data,         \* Reqs -> what verify_token returned to the handler
    projects_response, \* Reqs -> answer of the projects backend
    carbon_response,   \* Reqs -> answer of the carbon backend
    calls,             \* Reqs -> outbound calls issued for the request, in order
    result,            \* Reqs -> the HTTP response given to the caller
    h_pc,              \* HealthReqs -> position of the /health task
    h_next,            \* HealthReqs -> index in SERVICES of the probe in flight
    health_status,     \* HealthReqs -> the report dict being built
    probe_outcome,     \* HealthReqs -> what each completed probe came back with
    h_calls,           \* HealthReqs -> probes issued, in order
    h_result,          \* HealthReqs -> the HTTP response of /health
    projects,          \* project service: the projects table, row i has id i
    project_members,   \* project service: the project_members table
    ps_pc,             \* ProjReqs -> position of the project-service task
    ps_args,           \* ProjReqs -> route and parameters of the call it handles
    ps_result          \* ProjReqs -> status of its last response (0 = none)

apiVars == <<pc, op, credentials, project_data, verify_response, user_data,
             projects_response, carbon_response, calls, result>>
healthVars == <<h_pc, h_next, health_status, probe_outcome, h_calls, h_result>>
projVars == <<projects, project_members, ps_pc, ps_args, ps_result>>
vars == <<pc, op, credentials, project_data, verify_response, user_data,
          projects_response, carbon_response, calls, result,
          h_pc, h_next, health_status, probe_outcome, h_calls, h_result,
          projects, project_members, ps_pc, ps_args, ps_result>>

(***************************************************************************)
(* Bounds of the model.                                                    *)
(***************************************************************************)
\* concurrently handled /api requests
NumReqs == 2
\* concurrently handled /health invocations
NumHealth == 1

\* concurrently handled /health invocations while the backends keep their state
NumSteady == 2

\* concurrently handled requests to the project service
NumProjReqs == 2
\* rows the projects table may hold
MaxProjects == 1

Reqs == 1..NumReqs
ProjReqs == 1..NumProjReqs
HealthReqs == 1..NumHealth
SteadyReqs == 1..NumSteady

\* every /health task of the model
HealthTasks == HealthReqs \cup SteadyReqs

\* user ids the auth backend may answer with
UserIds == {7, 42}

(***************************************************************************)
(* Values.                                                                 *)
(***************************************************************************)
\* a Python dict / JSON object is a function from its keys
EmptyDict == [k \in {} |-> 0]

DictSet(d, k, v) == [x \in (DOMAIN d) \cup {k} |-> IF x = k THEN v ELSE d[x]]

Digits == <<"0", "1", "2", "3", "4", "5", "6", "7", "8", "9">>

\* str(n) / f"{n}" of a non-negative int
RECURSIVE Str(_)
Str(n) == IF n < 10 THEN Digits[n + 1]
          ELSE Str(n \div 10) \o Digits[(n % 10) + 1]

\* the service registry, in the order the dict is written
SERVICES == <<"auth", "projects", "carbon", "monitoring">>

ServiceNames == {SERVICES[i] : i \in 1..Len(SERVICES)}

\* a response body: text that decodes as JSON to `value`, or text that does not
JsonBody(v) == [json |-> TRUE, value |-> v]

\* what an awaited httpx call evaluates to: a Response or a raised exception
Response(status, body) == [kind |-> "response", status |-> status, body |-> body]
Raised(exc) == [kind |-> "error", error |-> exc]
NoResponse == [kind |-> "none"]

\* httpx.ConnectError (connection refused) and httpx.ReadTimeout
TransportErrors == {Raised("ConnectError"), Raised("ReadTimeout")}

(***************************************************************************)
(* The environment: what the callers send and what the backends answer.    *)
(***************************************************************************)
NoCredentials == ""
Credentials == {NoCredentials, "tok"}

\* JSON bodies of POST /api/projects; the second names an owner itself
ProjectPayloads == { [name |-> "forest"],
                     [name |-> "forest", created_by |-> 7] }

\* answers of the auth backend to POST /verify
AuthAnswers ==
    {Response(200, JsonBody([user_id |-> u, email |-> "user@eco"])) : u \in UserIds}
    \cup {Response(200, JsonBody([email |-> "user@eco"])),
          Response(200, [json |-> FALSE, value |-> EmptyDict]),
          Response(401, JsonBody([detail |-> "Invalid token"]))}
    \cup TransportErrors

\* answers of a data backend to a data call whose success body decodes to v
DataAnswers(v) ==
    {Response(200, JsonBody(v)),
     Response(204, [json |-> FALSE, value |-> ""]),
     Response(500, JsonBody("detail")),
     Response(502, [json |-> FALSE, value |-> "<html>"])}
    \cup TransportErrors

\* POST /projects, GET /projects/user/{id}, GET /footprint/{id}
CreatedAnswers == DataAnswers("project")
ProjectsAnswers == DataAnswers("projects-of-user")
CarbonAnswers == DataAnswers("footprint")

\* answers of a backend to the GET /health probe; ReadTimeout is a backend
\* that hangs past the client's 5 second timeout
HealthAnswers ==
    {Response(200, JsonBody("status")),
     Response(204, JsonBody("status")),
     Response(503, JsonBody("status"))}
    \cup TransportErrors

\* Response.json(): the decoded body, or json.JSONDecodeError
ResponseJson(response) ==
    IF response.body.json
    THEN [raised |-> FALSE, value |-> response.body.value]
    ELSE [raised |-> TRUE, value |-> response.body.value]

(***************************************************************************)
(* How FastAPI turns the end of a handler into the HTTP response.          *)
(***************************************************************************)
\* a returned value is sent as 200 with the value as JSON body
Returned(value) == [status |-> 200, error |-> "", body |-> value]

\* raise HTTPException(status_code, detail)
HTTPException(status, detail) ==
    [status |-> status, error |-> "HTTPException", body |-> [detail |-> detail]]

\* any other exception leaving the handler: 500 Internal Server Error
Unhandled(exc) ==
    [status |-> 500, error |-> exc, body |-> [detail |-> "Internal Server Error"]]

NoResult == [status |-> 0, error |-> "", body |-> EmptyDict]

(***************************************************************************)
(* Outbound calls.  The base address of a call is the registry entry of    *)
(* `service`; `path` is what the code appends to it.                       *)
(***************************************************************************)
Call(service, method, path, json, headers) ==
    [service |-> service, method |-> method, path |-> path,
     json |-> json, headers |-> headers]

\* client.post(f"{SERVICES['auth']}/verify", headers={"Authorization": ...})
verify_call(cred) ==
    Call("auth", "POST", "/verify", EmptyDict,
         "Authorization" :> ("Bearer " \o cred))

\* the same call built as {"created_by": user_id, **project_data}: a key of
\* the caller's payload wins over the verified id
create_project_call_caller_wins(data, identity) ==
    Call("projects", "POST", "/projects",
         IF "created_by" \in DOMAIN data THEN data
         ELSE DictSet(data, "created_by", identity["user_id"]),
         "X-User-Id" :> Str(identity["user_id"]))

\* client.post(f"{SERVICES['projects']}/projects", json={**project_data,
\*             "created_by": user_id}, headers={"X-User-Id": str(user_id)})
create_project_call(data, identity) ==
    Call("projects", "POST", "/projects",
         DictSet(data, "created_by", identity["user_id"]),
         "X-User-Id" :> Str(identity["user_id"]))

\* client.get(f"{SERVICES['projects']}/projects/user/{user_data['user_id']}")
dashboard_projects_call(identity) ==
    Call("projects", "GET", "/projects/user/" \o Str(identity["user_id"]),
         EmptyDict, EmptyDict)

\* client.get(f"{SERVICES['carbon']}/footprint/{user_data['user_id']}")
dashboard_carbon_call(identity) ==
    Call("carbon", "GET", "/footprint/" \o Str(identity["user_id"]),
         EmptyDict, EmptyDict)

\* client.get(f"{url}/health") of the health check
probe_call(service) == Call(service, "GET", "/health", EmptyDict, EmptyDict)

(***************************************************************************)
(* verify_token, from the answer of the awaited POST on.                   *)
(***************************************************************************)
\* the body of the try block: what it returns or raises
verify_token_try(response) ==
    IF response.kind = "error"
    THEN [raised |-> TRUE, exc |-> Unhandled(response.error), value |-> EmptyDict]
    ELSE IF response.status # 200
    THEN [raised |-> TRUE, exc |-> HTTPException(401, "Invalid token"),
          value |-> EmptyDict]
    ELSE IF ResponseJson(response).raised
    THEN [raised |-> TRUE, exc |-> Unhandled("JSONDecodeError"), value |-> EmptyDict]
    ELSE [raised |-> FALSE, exc |-> NoResult, value |-> ResponseJson(response).value]

\* verify_token with an except branch that falls back to an anonymous
\* identity instead of raising
verify_token_fallback(response) ==
    IF verify_token_try(response).raised
    THEN [raised |-> FALSE, exc |-> NoResult,
          value |-> [user_id |-> 0, email |-> "anonymous"]]
    ELSE verify_token_try(response)

\* the bare `except:` around it catches whatever the try block raised,
\* the HTTPException(401) of the status check included
verify_token(response) ==
    IF verify_token_try(response).raised
    THEN [raised |-> TRUE, exc |-> HTTPException(503, "Auth service unavailable"),
          value |-> EmptyDict]
    ELSE verify_token_try(response)

(***************************************************************************)
(* The ends of the two handlers.                                           *)
(***************************************************************************)
\* create_project: `return response.json()`, whatever the status
create_project_result(response) ==
    IF response.kind = "error" THEN Unhandled(response.error)
    ELSE IF ResponseJson(response).raised THEN Unhandled("JSONDecodeError")
    ELSE Returned(ResponseJson(response).value)

\* get_dashboard returning the projects body under both keys
get_dashboard_result_copied(p_response, c_response) ==
    IF c_response.kind = "error" THEN Unhandled(c_response.error)
    ELSE IF ResponseJson(p_response).raised THEN Unhandled("JSONDecodeError")
    ELSE IF ResponseJson(c_response).raised THEN Unhandled("JSONDecodeError")
    ELSE Returned([projects |-> ResponseJson(p_response).value,
                   carbon_footprint |-> ResponseJson(p_response).value])

\* get_dashboard: the dict of the two decoded bodies, whatever the statuses
get_dashboard_result(p_response, c_response) ==
    IF c_response.kind = "error" THEN Unhandled(c_response.error)
    ELSE IF ResponseJson(p_response).raised THEN Unhandled("JSONDecodeError")
    ELSE IF ResponseJson(c_response).raised THEN Unhandled("JSONDecodeError")
    ELSE Returned([projects |-> ResponseJson(p_response).value,
                   carbon_footprint |-> ResponseJson(c_response).value])

(***************************************************************************)
(* health_check: what one probe adds to the report.                        *)
(***************************************************************************)
\* the classification with response.is_success in place of == 200
Classify_is_success(answer) ==
    IF answer.kind = "error" THEN "unreachable"
    ELSE IF answer.status \in 200..299 THEN "healthy"
    ELSE "unhealthy"

\* "healthy" if response.status_code == 200 else "unhealthy"; the bare
\* `except:` of the loop body gives "unreachable"
Classify(answer) ==
    IF answer.kind = "error" THEN "unreachable"
    ELSE IF answer.status = 200 THEN "healthy"
    ELSE "unhealthy"

\* the loop body with `except: pass`: a probe that raised leaves no entry
health_record_pass(report, service, answer) ==
    IF answer.kind = "error" THEN report
    ELSE DictSet(report, service, Classify(answer))

\* health_status[service_name] = ..., in the try or in the except branch
health_record(report, service, answer) ==
    DictSet(report, service, Classify(answer))

(***************************************************************************)
(* The project service (src/project-service/main.py).                      *)
(***************************************************************************)
\* values of the query parameter `progress` (per cent)
Progresses == {50, 100}

\* route and parameters of a call
Args(route, project_id, progress, x_user_id) ==
    [route |-> route, project_id |-> project_id, progress |-> progress,
     x_user_id |-> x_user_id]

NoArgs == Args("", 0, 0, 0)

\* projects.insert().values(..., created_by=x_user_id, status=PLANNING);
\* current_progress takes the column default 0.0
NewProject(x_user_id) ==
    [status |-> "planning", current_progress |-> 0, created_by |-> x_user_id]

\* the row project_members.select().where(project_id, user_id) fetches, if any
IsMember(project_id, user_id) ==
    \E m \in project_members :
        m.project_id = project_id /\ m.user_id = user_id

(***************************************************************************)
(* Initial state: no request has arrived.                                  *)
(***************************************************************************)
Init ==
    /\ pc = [r \in Reqs |-> "idle"]
    /\ op = [r \in Reqs |-> ""]
    /\ credentials = [r \in Reqs |-> NoCredentials]
    /\ project_data = [r \in Reqs |-> EmptyDict]
    /\ verify_response = [r \in Reqs |-> NoResponse]
    /\ user_data = [r \in Reqs |-> EmptyDict]
    /\ projects_response = [r \in Reqs |-> NoResponse]
    /\ carbon_response = [r \in Reqs |-> NoResponse]
    /\ calls = [r \in Reqs |-> <<>>]
    /\ result = [r \in Reqs |-> NoResult]
    /\ h_pc = [h \in HealthTasks |-> "idle"]
    /\ h_next = [h \in HealthTasks |-> 0]
    /\ health_status = [h \in HealthTasks |-> EmptyDict]
    /\ probe_outcome = [h \in HealthTasks |-> EmptyDict]
    /\ h_calls = [h \in HealthTasks |-> <<>>]
    /\ h_result = [h \in HealthTasks |-> NoResult]
    /\ projects = <<>>
    /\ project_members = {}
    /\ ps_pc = [t \in ProjReqs |-> "idle"]
    /\ ps_args = [t \in ProjReqs |-> NoArgs]
    /\ ps_result = [t \in ProjReqs |-> 0]

(***************************************************************************)
(* A protected request arrives.  The HTTPBearer dependency rejects a       *)
(* request without bearer credentials before verify_token runs (403 or     *)
(* 401, depending on the FastAPI release); otherwise verify_token issues   *)
(* POST /verify and the task waits for the answer.                         *)
(***************************************************************************)
Receive(r) ==
    /\ pc[r] = "idle"
    /\ \E route \in {"create_project", "get_dashboard"}, cred \in Credentials :
       \E data \in (IF route = "create_project" THEN ProjectPayloads
                    ELSE {EmptyDict}) :
          /\ op' = [op EXCEPT ![r] = route]
          /\ credentials' = [credentials EXCEPT ![r] = cred]
          /\ project_data' = [project_data EXCEPT ![r] = data]
          /\ IF cred = NoCredentials
             THEN /\ \E status \in {401, 403} :
                       result' = [result EXCEPT
                                    ![r] = HTTPException(status, "Not authenticated")]
                  /\ pc' = [pc EXCEPT ![r] = "done"]
                  /\ calls' = calls
             ELSE /\ calls' = [calls EXCEPT ![r] = Append(@, verify_call(cred))]
                  /\ pc' = [pc EXCEPT ![r] = "verifying"]
                  /\ result' = result
    /\ UNCHANGED <<verify_response, user_data, projects_response, carbon_response>>
    /\ UNCHANGED healthVars
    /\ UNCHANGED projVars

(***************************************************************************)
(* The auth backend answers.  verify_token ends; when it returned, the     *)
(* handler starts and runs up to its first awaited backend call.  Reading  *)
(* user_data["user_id"] raises KeyError when the key is absent.            *)
(***************************************************************************)
VerifyAnswered(r) ==
    /\ pc[r] = "verifying"
    /\ \E response \in AuthAnswers :
         /\ verify_response' = [verify_response EXCEPT ![r] = response]
         /\ IF verify_token(response).raised
            THEN /\ result' = [result EXCEPT ![r] = verify_token(response).exc]
                 /\ pc' = [pc EXCEPT ![r] = "done"]
                 /\ UNCHANGED <<user_data, calls>>
            ELSE /\ user_data' = [user_data EXCEPT ![r] = verify_token(response).value]
                 /\ IF "user_id" \notin DOMAIN user_data'[r]
                    THEN /\ result' = [result EXCEPT ![r] = Unhandled("KeyError")]
                         /\ pc' = [pc EXCEPT ![r] = "done"]
                         /\ calls' = calls
                    ELSE /\ result' = result
                         /\ IF op[r] = "create_project"
                            THEN /\ calls' = [calls EXCEPT ![r] = Append(@,
                                        create_project_call(project_data[r],
                                                            user_data'[r]))]
                                 /\ pc' = [pc EXCEPT ![r] = "posting"]
                            ELSE /\ calls' = [calls EXCEPT ![r] = Append(@,
                                        dashboard_projects_call(user_data'[r]))]
                                 /\ pc' = [pc EXCEPT ![r] = "fetch_projects"]
    /\ UNCHANGED <<op, credentials, project_data, projects_response, carbon_response>>
    /\ UNCHANGED healthVars
    /\ UNCHANGED projVars

(***************************************************************************)
(* create_project with a retry: a POST that raised is sent again, up to    *)
(* three times in all.                                                     *)
(***************************************************************************)
create_project_retry(r) ==
    /\ pc[r] = "posting"
    /\ \E response \in CreatedAnswers :
         /\ projects_response' = [projects_response EXCEPT ![r] = response]
         /\ IF response.kind = "error" /\ Len(calls[r]) < 4
            THEN /\ calls' = [calls EXCEPT ![r] = Append(@, calls[r][Len(calls[r])])]
                 /\ UNCHANGED <<pc, result>>
            ELSE /\ result' = [result EXCEPT ![r] = create_project_result(response)]
                 /\ pc' = [pc EXCEPT ![r] = "done"]
                 /\ calls' = calls
    /\ UNCHANGED <<op, credentials, project_data, verify_response, user_data,
                   carbon_response>>
    /\ UNCHANGED healthVars
    /\ UNCHANGED projVars

(***************************************************************************)
(* create_project: the projects backend answers the POST.                  *)
(***************************************************************************)
create_project_return(r) ==
    /\ pc[r] = "posting"
    /\ \E response \in CreatedAnswers :
         /\ projects_response' = [projects_response EXCEPT ![r] = response]
         /\ result' = [result EXCEPT ![r] = create_project_result(response)]
    /\ pc' = [pc EXCEPT ![r] = "done"]
    /\ UNCHANGED <<op, credentials, project_data, verify_response, user_data,
                   carbon_response, calls>>
    /\ UNCHANGED healthVars
    /\ UNCHANGED projVars

(***************************************************************************)
(* get_dashboard: the projects backend answers the first GET; unless the   *)
(* call raised, the carbon GET is issued next.                             *)
(***************************************************************************)
get_dashboard_projects(r) ==
    /\ pc[r] = "fetch_projects"
    /\ \E response \in ProjectsAnswers :
         /\ projects_response' = [projects_response EXCEPT ![r] = response]
         /\ IF response.kind = "error"
            THEN /\ result' = [result EXCEPT ![r] = Unhandled(response.error)]
                 /\ pc' = [pc EXCEPT ![r] = "done"]
                 /\ calls' = calls
            ELSE /\ calls' = [calls EXCEPT ![r] = Append(@,
                                  dashboard_carbon_call(user_data[r]))]
                 /\ pc' = [pc EXCEPT ![r] = "fetch_carbon"]
                 /\ result' = result
    /\ UNCHANGED <<op, credentials, project_data, verify_response, user_data,
                   carbon_response>>
    /\ UNCHANGED healthVars
    /\ UNCHANGED projVars

(***************************************************************************)
(* get_dashboard: the carbon backend answers the second GET; the handler   *)
(* decodes both bodies and returns.                                        *)
(***************************************************************************)
get_dashboard_return(r) ==
    /\ pc[r] = "fetch_carbon"
    /\ \E response \in CarbonAnswers :
         /\ carbon_response' = [carbon_response EXCEPT ![r] = response]
         /\ result' = [result EXCEPT
                         ![r] = get_dashboard_result(projects_response[r], response)]
    /\ pc' = [pc EXCEPT ![r] = "done"]
    /\ UNCHANGED <<op, credentials, project_data, verify_response, user_data,
                   projects_response, calls>>
    /\ UNCHANGED healthVars
    /\ UNCHANGED projVars

NextApi ==
    \E r \in Reqs :
        \/ Receive(r)
        \/ VerifyAnswered(r)
        \/ create_project_return(r)
        \/ get_dashboard_projects(r)
        \/ get_dashboard_return(r)

\* the protected routes alone, NumReqs requests in flight at once
SpecApi == Init /\ [][NextApi]_vars

(***************************************************************************)
(* health_check started while another invocation is probing answers at     *)
(* once with the gateway entry alone (a single-flight guard).              *)
(***************************************************************************)
health_check_single_flight(h) ==
    /\ h_pc[h] = "idle"
    /\ health_status' = [health_status EXCEPT ![h] = "gateway" :> "healthy"]
    /\ IF \E h2 \in HealthTasks : h2 # h /\ h_pc[h2] = "probing"
       THEN /\ h_pc' = [h_pc EXCEPT ![h] = "done"]
            /\ h_result' = [h_result EXCEPT ![h] = Returned(health_status'[h])]
            /\ UNCHANGED <<h_next, h_calls>>
       ELSE /\ h_next' = [h_next EXCEPT ![h] = 1]
            /\ h_calls' = [h_calls EXCEPT ![h] = <<probe_call(SERVICES[1])>>]
            /\ h_pc' = [h_pc EXCEPT ![h] = "probing"]
            /\ h_result' = h_result
    /\ UNCHANGED probe_outcome
    /\ UNCHANGED apiVars
    /\ UNCHANGED projVars

(***************************************************************************)
(* GET /health arrives: the report starts as {"gateway": "healthy"} and    *)
(* the loop over SERVICES.items() awaits the probe of the first service.   *)
(***************************************************************************)
health_check(h) ==
    /\ h_pc[h] = "idle"
    /\ health_status' = [health_status EXCEPT ![h] = "gateway" :> "healthy"]
    /\ h_next' = [h_next EXCEPT ![h] = 1]
    /\ h_calls' = [h_calls EXCEPT ![h] = <<probe_call(SERVICES[1])>>]
    /\ h_pc' = [h_pc EXCEPT ![h] = "probing"]
    /\ UNCHANGED <<probe_outcome, h_result>>
    /\ UNCHANGED apiVars
    /\ UNCHANGED projVars

(***************************************************************************)
(* The awaited probe ends (answer, transport error or timeout): the loop   *)
(* body records the service's entry, and the loop either awaits the probe  *)
(* of the next service or ends and the report is returned.                 *)
(***************************************************************************)
health_probe_done(h) ==
    /\ h_pc[h] = "probing"
    /\ \E answer \in HealthAnswers :
         /\ health_status' = [health_status EXCEPT
                ![h] = health_record(@, SERVICES[h_next[h]], answer)]
         /\ probe_outcome' = [probe_outcome EXCEPT
                ![h] = DictSet(@, SERVICES[h_next[h]], answer)]
    /\ IF h_next[h] < Len(SERVICES)
       THEN /\ h_next' = [h_next EXCEPT ![h] = @ + 1]
            /\ h_calls' = [h_calls EXCEPT
                   ![h] = Append(@, probe_call(SERVICES[h_next[h] + 1]))]
            /\ UNCHANGED <<h_pc, h_result>>
       ELSE /\ h_pc' = [h_pc EXCEPT ![h] = "done"]
            /\ h_result' = [h_result EXCEPT ![h] = Returned(health_status'[h])]
            /\ UNCHANGED <<h_next, h_calls>>
    /\ UNCHANGED apiVars
    /\ UNCHANGED projVars

NextHealth ==
    \E h \in HealthReqs :
        \/ health_check(h)
        \/ health_probe_done(h)

\* the health route alone, NumHealth invocations in flight at once
SpecHealth == Init /\ [][NextHealth]_vars

(***************************************************************************)
(* The health route while no backend changes its state: a probe of a       *)
(* service ends the way every other probe of that service ended.           *)
(***************************************************************************)
health_probe_steady(h) ==
    /\ health_probe_done(h)
    /\ \A h2 \in SteadyReqs :
          \A s \in (DOMAIN probe_outcome'[h]) \cap (DOMAIN probe_outcome'[h2]) :
              probe_outcome'[h][s] = probe_outcome'[h2][s]

NextSteady ==
    \E h \in SteadyReqs :
        \/ health_check(h)
        \/ health_probe_steady(h)

\* NumSteady health invocations in flight at once, the backends unchanged
SpecSteady == Init /\ [][NextSteady]_vars

\* one protected request and one health invocation, interleaved
NextOne ==
    \/ Receive(1)
    \/ VerifyAnswered(1)
    \/ create_project_return(1)
    \/ get_dashboard_projects(1)
    \/ get_dashboard_return(1)
    \/ health_check(1)
    \/ health_probe_done(1)

SpecOne == Init /\ [][NextOne]_vars

(***************************************************************************)
(* Project service, POST /projects.  Each statement awaited on the         *)
(* database is one step; calls handled at once interleave between them.    *)
(***************************************************************************)
\* projects.update().where(id == project_id).values(current_progress=progress)
\* with an update of the status column as well
SetProgress_tracks_status(rows, project_id, progress) ==
    [i \in DOMAIN rows |->
        IF i = project_id
        THEN [rows[i] EXCEPT !.current_progress = progress,
                             !.status = IF progress >= 100 THEN "completed"
                                        ELSE "in_progress"]
        ELSE rows[i]]

\* projects.update().where(id == project_id).values(current_progress=progress)
SetProgress(rows, project_id, progress) ==
    [i \in DOMAIN rows |->
        IF i = project_id
        THEN [rows[i] EXCEPT !.current_progress = progress]
        ELSE rows[i]]

\* projects.update().where(id == project_id).values(status=COMPLETED)
SetCompleted(rows, project_id) ==
    [i \in DOMAIN rows |->
        IF i = project_id
        THEN [rows[i] EXCEPT !.status = "completed"]
        ELSE rows[i]]

\* the call arrives and the project row is inserted
ps_create_project(t) ==
    /\ ps_pc[t] = "idle"
    /\ Len(projects) < MaxProjects
    /\ \E x_user_id \in UserIds :
          /\ projects' = Append(projects, NewProject(x_user_id))
          /\ ps_args' = [ps_args EXCEPT
                ![t] = Args("create_project", Len(projects) + 1, 0, x_user_id)]
    /\ ps_pc' = [ps_pc EXCEPT ![t] = "add_member"]
    /\ ps_result' = [ps_result EXCEPT ![t] = 0]
    /\ UNCHANGED project_members
    /\ UNCHANGED apiVars
    /\ UNCHANGED healthVars

\* the creator is added as a member
ps_create_add_member(t) ==
    /\ ps_pc[t] = "add_member"
    /\ project_members' = project_members \cup
          {[project_id |-> ps_args[t].project_id,
            user_id |-> ps_args[t].x_user_id,
            role |-> "creator"]}
    /\ ps_pc' = [ps_pc EXCEPT ![t] = "select_created"]
    /\ UNCHANGED <<projects, ps_args, ps_result>>
    /\ UNCHANGED apiVars
    /\ UNCHANGED healthVars

\* the created row is fetched and returned
ps_create_return(t) ==
    /\ ps_pc[t] = "select_created"
    /\ ps_pc' = [ps_pc EXCEPT ![t] = "idle"]
    /\ ps_args' = [ps_args EXCEPT ![t] = NoArgs]
    /\ ps_result' = [ps_result EXCEPT ![t] = 200]
    /\ UNCHANGED <<projects, project_members>>
    /\ UNCHANGED apiVars
    /\ UNCHANGED healthVars

(***************************************************************************)
(* Project service, PATCH /projects/{project_id}/progress.                 *)
(***************************************************************************)
\* the call arrives and the membership query is issued
ps_update_progress(t) ==
    /\ ps_pc[t] = "idle"
    /\ \E project_id \in 1..MaxProjects, progress \in Progresses,
          x_user_id \in UserIds :
          ps_args' = [ps_args EXCEPT
              ![t] = Args("update_progress", project_id, progress, x_user_id)]
    /\ ps_pc' = [ps_pc EXCEPT ![t] = "check_member"]
    /\ ps_result' = [ps_result EXCEPT ![t] = 0]
    /\ UNCHANGED <<projects, project_members>>
    /\ UNCHANGED apiVars
    /\ UNCHANGED healthVars

\* the membership row is fetched; without one the call is answered 403
ps_update_check(t) ==
    /\ ps_pc[t] = "check_member"
    /\ IF IsMember(ps_args[t].project_id, ps_args[t].x_user_id)
       THEN /\ ps_pc' = [ps_pc EXCEPT ![t] = "write_progress"]
            /\ UNCHANGED <<ps_args, ps_result>>
       ELSE /\ ps_pc' = [ps_pc EXCEPT ![t] = "idle"]
            /\ ps_args' = [ps_args EXCEPT ![t] = NoArgs]
            /\ ps_result' = [ps_result EXCEPT ![t] = 403]
    /\ UNCHANGED <<projects, project_members>>
    /\ UNCHANGED apiVars
    /\ UNCHANGED healthVars

\* current_progress is written; below 100 the call returns here
ps_update_write(t) ==
    /\ ps_pc[t] = "write_progress"
    /\ projects' = SetProgress(projects, ps_args[t].project_id,
                               ps_args[t].progress)
    /\ IF ps_args[t].progress >= 100
       THEN /\ ps_pc' = [ps_pc EXCEPT ![t] = "write_status"]
            /\ UNCHANGED <<ps_args, ps_result>>
       ELSE /\ ps_pc' = [ps_pc EXCEPT ![t] = "idle"]
            /\ ps_args' = [ps_args EXCEPT ![t] = NoArgs]
            /\ ps_result' = [ps_result EXCEPT ![t] = 200]
    /\ UNCHANGED project_members
    /\ UNCHANGED apiVars
    /\ UNCHANGED healthVars

\* progress >= 100: the status is written and the call returns
ps_update_status(t) ==
    /\ ps_pc[t] = "write_status"
    /\ projects' = SetCompleted(projects, ps_args[t].project_id)
    /\ ps_pc' = [ps_pc EXCEPT ![t] = "idle"]
    /\ ps_args' = [ps_args EXCEPT ![t] = NoArgs]
    /\ ps_result' = [ps_result EXCEPT ![t] = 200]
    /\ UNCHANGED project_members
    /\ UNCHANGED apiVars
    /\ UNCHANGED healthVars

NextProjects ==
    \E t \in ProjReqs :
        \/ ps_create_project(t)
        \/ ps_create_add_member(t)
        \/ ps_create_return(t)
        \/ ps_update_progress(t)
        \/ ps_update_check(t)
        \/ ps_update_write(t)
        \/ ps_update_status(t)

\* the project service alone, NumProjReqs calls in flight at once
SpecProjects == Init /\ [][NextProjects]_vars

\* the gateway and the project service
Next == NextApi \/ NextHealth \/ NextProjects

Spec == Init /\ [][Next]_vars

(***************************************************************************)
(* Vocabulary of the properties.                                           *)
(***************************************************************************)
\* the calls of request r that went to a data backend
DataCalls(r) ==
    SelectSeq(calls[r], LAMBDA c : c.service \in {"projects", "carbon"})

\* the calls of request r to one endpoint
CallsTo(r, service, method) ==
    SelectSeq(calls[r], LAMBDA c : c.service = service /\ c.method = method)

\* the auth backend answered /verify of request r with something else than 200
VerifyNon200(r) ==
    /\ verify_response[r].kind = "response"
    /\ verify_response[r].status # 200

\* the /verify call of request r failed at the network level
VerifyNetworkFailure(r) == verify_response[r].kind = "error"

\* the request came without bearer credentials
MissingCredentials(r) == pc[r] # "idle" /\ credentials[r] = NoCredentials

\* the verification of request r returned an identity with a user id
Verified(r) ==
    /\ verify_response[r].kind = "response"
    /\ verify_response[r].status = 200
    /\ verify_response[r].body.json
    /\ "user_id" \in DOMAIN verify_response[r].body.value

VerifiedUserId(r) == verify_response[r].body.value["user_id"]

\* a data backend answered with a status outside 2xx
Non2xx(response) ==
    /\ response.kind = "response"
    /\ response.status \notin 200..299

\* a data call succeeded: a 2xx answer whose body decodes
Succeeded(response) ==
    /\ response.kind = "response"
    /\ response.status \in 200..299
    /\ response.body.json

\* the request ended in a failure response
Failure(r) == pc[r] = "done" /\ result[r].status \in 400..599

(***************************************************************************)
(* C1: a protected request whose bearer credential is missing, or whose    *)
(* /verify call came back non-200 or failed at the network level, ends in  *)
(* failure, and no call to the projects or carbon backend is ever made for *)
(* it; as long as /verify has not come back with 200, none has been made.  *)
(***************************************************************************)
C1_VerifyBeforeDispatch ==
    \A r \in Reqs :
        /\ (MissingCredentials(r) \/ VerifyNon200(r) \/ VerifyNetworkFailure(r))
              => (Failure(r) /\ DataCalls(r) = <<>>)
        /\ (verify_response[r].kind = "none") => (DataCalls(r) = <<>>)

\* one request was refused with a 401 from auth while another one, verified,
\* has its POST at the projects backend
C1_Witness ==
    \E r1, r2 \in Reqs :
        /\ r1 # r2
        /\ VerifyNon200(r1) /\ pc[r1] = "done"
        /\ result[r1].status = 503
        /\ pc[r2] = "posting"

(***************************************************************************)
(* C2: a non-200 answer of the auth backend ends the request with 401      *)
(* (Unauthenticated), a network-level failure of the /verify call with 503 *)
(* (AuthServiceUnavailable), and a non-200 answer is never reported as 503.*)
(***************************************************************************)
C2_VerifyFailureCauses ==
    \A r \in Reqs :
        /\ (pc[r] = "done" /\ VerifyNon200(r)) => result[r].status = 401
        /\ (pc[r] = "done" /\ VerifyNetworkFailure(r)) => result[r].status = 503

(***************************************************************************)
(* C3: a non-2xx answer of a data backend is never returned as a success:  *)
(* the request ends in a failure that carries that backend's status.       *)
(***************************************************************************)
C3_BackendErrorPropagated ==
    \A r \in Reqs :
        (/\ pc[r] = "done"
         /\ Non2xx(projects_response[r]) \/ Non2xx(carbon_response[r]))
        => /\ result[r].error # ""
           /\ \/ /\ Non2xx(projects_response[r])
                 /\ result[r].status = projects_response[r].status
              \/ /\ Non2xx(carbon_response[r])
                 /\ result[r].status = carbon_response[r].status

(***************************************************************************)
(* C4: after a successful verification, a connection failure or timeout of *)
(* a data-backend call ends the request with 503 (BackendUnreachable).     *)
(***************************************************************************)
C4_BackendUnreachable503 ==
    \A r \in Reqs :
        (/\ pc[r] = "done"
         /\ Verified(r)
         /\ \/ projects_response[r].kind = "error"
            \/ carbon_response[r].kind = "error")
        => result[r].status = 503

(***************************************************************************)
(* C5: a create-project request whose verification returned user id u      *)
(* issues exactly one call to the projects backend, POST /projects, with   *)
(* created_by = u in the JSON payload and X-User-Id = str(u) in the        *)
(* headers, u being the id in the /verify answer of this very request.     *)
(***************************************************************************)
C5_IdentityPropagation ==
    \A r \in Reqs :
        (op[r] = "create_project" /\ Verified(r)) =>
            /\ Len(DataCalls(r)) = 1
            /\ DataCalls(r)[1].service = "projects"
            /\ DataCalls(r)[1].method = "POST"
            /\ DataCalls(r)[1].path = "/projects"
            /\ DataCalls(r)[1].json["created_by"] = VerifiedUserId(r)
            /\ DOMAIN DataCalls(r)[1].headers = {"X-User-Id"}
            /\ DataCalls(r)[1].headers["X-User-Id"] \in {"7", "42"}
            /\ DataCalls(r)[1].headers["X-User-Id"] = Str(VerifiedUserId(r))

\* two create-project requests verified as different users, one of them
\* answered, the payload of one naming the other user as owner
C5_Witness ==
    \E r1, r2 \in Reqs :
        /\ op[r1] = "create_project" /\ op[r2] = "create_project"
        /\ Verified(r1) /\ Verified(r2)
        /\ VerifiedUserId(r1) = 42 /\ VerifiedUserId(r2) = 7
        /\ "created_by" \in DOMAIN project_data[r1]
        /\ pc[r1] = "done" /\ pc[r2] = "posting"

(***************************************************************************)
(* C9: a get-dashboard request verified as user u whose projects call and  *)
(* carbon call both succeed returns 200 with exactly the keys projects and *)
(* carbon_footprint, holding the two decoded bodies as they came, and the  *)
(* two calls were GET /projects/user/u and GET /footprint/u.               *)
(***************************************************************************)
C9_DashboardAggregation ==
    \A r \in Reqs :
        (/\ op[r] = "get_dashboard"
         /\ pc[r] = "done"
         /\ Verified(r)
         /\ Succeeded(projects_response[r])
         /\ Succeeded(carbon_response[r]))
        => /\ result[r].status = 200
           /\ result[r].error = ""
           /\ DOMAIN result[r].body = {"projects", "carbon_footprint"}
           /\ result[r].body["projects"] = projects_response[r].body.value
           /\ result[r].body["carbon_footprint"] = carbon_response[r].body.value
           /\ Len(DataCalls(r)) = 2
           /\ DataCalls(r)[1].service = "projects"
           /\ DataCalls(r)[1].method = "GET"
           /\ DataCalls(r)[1].path = "/projects/user/" \o Str(VerifiedUserId(r))
           /\ DataCalls(r)[2].service = "carbon"
           /\ DataCalls(r)[2].method = "GET"
           /\ DataCalls(r)[2].path = "/footprint/" \o Str(VerifiedUserId(r))
           /\ DataCalls(r)[1].path \in {"/projects/user/7", "/projects/user/42"}

\* a dashboard was aggregated for user 42 while another request, verified as
\* user 7, is between its two fetches
C9_Witness ==
    \E r1, r2 \in Reqs :
        /\ op[r1] = "get_dashboard" /\ pc[r1] = "done"
        /\ Verified(r1) /\ VerifiedUserId(r1) = 42
        /\ Succeeded(projects_response[r1]) /\ Succeeded(carbon_response[r1])
        /\ result[r1].error = ""
        /\ op[r2] = "get_dashboard" /\ pc[r2] = "fetch_carbon"
        /\ Verified(r2) /\ VerifiedUserId(r2) = 7

(***************************************************************************)
(* Vocabulary of the health properties.                                    *)
(***************************************************************************)
\* the services whose probe has been issued in invocation h
Probed(h) == {h_calls[h][i].service : i \in 1..Len(h_calls[h])}

\* the services whose probe has ended in invocation h
Completed(h) == DOMAIN probe_outcome[h]

\* the services whose probe is awaited
InFlight(h) == Probed(h) \ Completed(h)

(***************************************************************************)
(* C6: every completed /health invocation returns a report whose keys are  *)
(* exactly the registered services plus "gateway", whatever combination of *)
(* backends is unreachable, timing out or answering an error status; the   *)
(* entry of a probed service is never lost to the failure of a later one.  *)
(***************************************************************************)
C6_ReportComplete ==
    \A h \in HealthReqs :
        /\ h_pc[h] = "done" =>
              /\ h_result[h].status = 200
              /\ DOMAIN h_result[h].body = ServiceNames \cup {"gateway"}
        /\ h_pc[h] # "idle" =>
              DOMAIN health_status[h] = Completed(h) \cup {"gateway"}

\* a report was returned although the first and the last probe raised
C6_Witness ==
    \E h \in HealthReqs :
        /\ h_pc[h] = "done"
        /\ probe_outcome[h]["auth"].kind = "error"
        /\ probe_outcome[h]["projects"].kind = "response"
        /\ probe_outcome[h]["monitoring"].kind = "error"

(***************************************************************************)
(* C7: in a report the entry of a service is "healthy" exactly when its    *)
(* probe came back with status 200, "unhealthy" exactly when it came back  *)
(* with another status, "unreachable" exactly when the probe raised a      *)
(* connection error or timed out; the gateway's entry is "healthy".        *)
(***************************************************************************)
C7_Classification ==
    \A h \in HealthReqs :
        /\ h_pc[h] # "idle" => health_status[h]["gateway"] = "healthy"
        /\ \A s \in Completed(h) :
              /\ s \in DOMAIN health_status[h]
              /\ health_status[h][s] = "healthy" <=>
                    (probe_outcome[h][s].kind = "response"
                     /\ probe_outcome[h][s].status = 200)
              /\ health_status[h][s] = "unhealthy" <=>
                    (probe_outcome[h][s].kind = "response"
                     /\ probe_outcome[h][s].status # 200)
              /\ health_status[h][s] = "unreachable" <=>
                    probe_outcome[h][s] \in TransportErrors
        /\ h_pc[h] = "done" => h_result[h].body = health_status[h]

\* a returned report with one entry of each class, the unhealthy one for a
\* 204 and the unreachable one for a timeout
C7_Witness ==
    \E h \in HealthReqs :
        /\ h_pc[h] = "done"
        /\ probe_outcome[h]["auth"] = Response(200, JsonBody("status"))
        /\ probe_outcome[h]["projects"] = Response(204, JsonBody("status"))
        /\ probe_outcome[h]["carbon"] = Raised("ReadTimeout")
        /\ probe_outcome[h]["monitoring"] = Response(503, JsonBody("status"))

(***************************************************************************)
(* C8: within one /health invocation the probes of all registered services *)
(* are issued without waiting for one another (while the invocation is     *)
(* probing, every service's probe has been issued), and the report is      *)
(* returned only after every probe has ended.                              *)
(***************************************************************************)
C8_ProbesConcurrent ==
    \A h \in HealthReqs :
        /\ h_pc[h] = "probing" => Probed(h) = ServiceNames
        /\ h_pc[h] = "done" => Completed(h) = ServiceNames

\* what the loop of health_check does instead: one probe is awaited at a
\* time, so at most one probe of an invocation is ever in flight
ProbesSerial ==
    \A h \in HealthReqs : Cardinality(InFlight(h)) <= 1

VerifiedWithoutUserId(r) ==
    /\ verify_response[r].kind = "response"
    /\ verify_response[r].status = 200
    /\ verify_response[r].body.json
    /\ "user_id" \notin DOMAIN verify_response[r].body.value

C11_IdentityWellFormed ==
    \A r \in Reqs :
        /\ VerifiedWithoutUserId(r) =>
              /\ user_data[r] = EmptyDict
              /\ pc[r] = "done"
              /\ result[r].error = "HTTPException"
              /\ result[r].status \in {401, 503}
              /\ DataCalls(r) = <<>>
        /\ (pc[r] \in {"posting", "fetch_projects", "fetch_carbon"})
              => "user_id" \in DOMAIN user_data[r]

(***************************************************************************)
(* C13: the payload of the POST /projects a create-project request         *)
(* forwards has created_by equal to the user id of this request's          *)
(* verification, also when the caller's payload names another owner, and   *)
(* carries every other field of the caller's payload unchanged.            *)
(***************************************************************************)
C13_NoOwnerSpoofing ==
    \A r \in Reqs :
        (op[r] = "create_project" /\ Verified(r)) =>
            /\ Len(CallsTo(r, "projects", "POST")) = 1
            /\ CallsTo(r, "projects", "POST")[1].json["created_by"]
                  = VerifiedUserId(r)
            /\ DOMAIN CallsTo(r, "projects", "POST")[1].json
                  = (DOMAIN project_data[r]) \cup {"created_by"}
            /\ \A k \in (DOMAIN project_data[r]) \ {"created_by"} :
                  CallsTo(r, "projects", "POST")[1].json[k] = project_data[r][k]

\* a caller verified as user 42 sent a payload naming user 7 as owner, and
\* its POST is at the projects backend
C13_Witness ==
    \E r \in Reqs :
        /\ op[r] = "create_project"
        /\ Verified(r) /\ VerifiedUserId(r) = 42
        /\ "created_by" \in DOMAIN project_data[r]
        /\ project_data[r]["created_by"] = 7
        /\ pc[r] = "posting"
        /\ CallsTo(r, "projects", "POST")[1].json["created_by"] = 42

(***************************************************************************)
(* C12: a /health invocation changes no state but its own (a step of one   *)
(* invocation leaves the variables of the protected requests and of every  *)
(* other invocation as they were), and two invocations that ran against    *)
(* unchanged backend states, however interleaved, return the same report.  *)
(***************************************************************************)
\* the state of health task h
HealthTaskState(h) ==
    <<h_pc[h], h_next[h], health_status[h], probe_outcome[h], h_calls[h],
      h_result[h]>>

SameReports ==
    \A h1, h2 \in SteadyReqs :
        (h_pc[h1] = "done" /\ h_pc[h2] = "done")
        => /\ h_result[h1].status = h_result[h2].status
           /\ h_result[h1].body = h_result[h2].body

NoSideEffect ==
    \A h \in SteadyReqs :
        (h_pc'[h] # h_pc[h] \/ h_next'[h] # h_next[h])
        => /\ UNCHANGED apiVars
           /\ \A h2 \in HealthTasks \ {h} :
                 <<h_pc'[h2], h_next'[h2], health_status'[h2], probe_outcome'[h2],
                   h_calls'[h2], h_result'[h2]>> = HealthTaskState(h2)

C12_HealthIdempotent == [](SameReports) /\ [][NoSideEffect]_vars

\* two invocations have returned, both having found auth unreachable,
\* projects answering 204 and monitoring healthy
C12_Witness ==
    /\ h_pc[1] = "done" /\ h_pc[2] = "done"
    /\ health_status[1]["auth"] = "unreachable"
    /\ health_status[2]["projects"] = "unhealthy"
    /\ probe_outcome[1]["projects"].status = 204
    /\ health_status[2]["monitoring"] = "healthy"

(***************************************************************************)
(* C14.  Project completion is monotonic.  An update_progress call by a    *)
(* member sets the status to "completed" when its progress is >= 100 and  *)
(* does not change the status otherwise; a call by a non-member is         *)
(* answered 403 and leaves progress and status as they were; so a project  *)
(* that has reached "completed" keeps that status, also when a later call  *)
(* lowers current_progress below 100.                                      *)
(***************************************************************************)
\* task t takes a step
Stepped(t) ==
    <<ps_pc[t], ps_args[t], ps_result[t]>> # <<ps_pc'[t], ps_args'[t], ps_result'[t]>>

\* the status column of every row is what it was
StatusKept ==
    /\ Len(projects') >= Len(projects)
    /\ \A i \in 1..Len(projects) : projects'[i].status = projects[i].status

\* a completed project stays completed
CompletedStays ==
    /\ Len(projects') >= Len(projects)
    /\ \A i \in 1..Len(projects) :
          projects[i].status = "completed" => projects'[i].status = "completed"

\* the status of a row changes only to "completed", by the status write of
\* a member's call with progress >= 100 for that project
StatusOnlyByFullProgress ==
    \A i \in 1..Len(projects) :
        (i <= Len(projects') /\ projects'[i].status # projects[i].status) =>
            /\ projects'[i].status = "completed"
            /\ \E t \in ProjReqs :
                  /\ Stepped(t)
                  /\ ps_pc[t] = "write_status"
                  /\ ps_args[t].route = "update_progress"
                  /\ ps_args[t].project_id = i
                  /\ ps_args[t].progress >= 100
                  /\ IsMember(i, ps_args[t].x_user_id)

\* a step of a member's call with progress < 100 leaves every status alone
LowProgressKeepsStatus ==
    \A t \in ProjReqs :
        (Stepped(t) /\ ps_pc[t] = "write_progress" /\ ps_args[t].progress < 100) =>
            /\ StatusKept
            /\ projects'[ps_args[t].project_id].current_progress
                   = ps_args[t].progress

\* a call by a non-member is answered 403 and writes nothing
NonMemberRejected ==
    \A t \in ProjReqs :
        (/\ Stepped(t)
         /\ ps_pc[t] = "check_member"
         /\ ~IsMember(ps_args[t].project_id, ps_args[t].x_user_id)) =>
            /\ ps_result'[t] = 403
            /\ ps_pc'[t] = "idle"
            /\ projects' = projects
            /\ project_members' = project_members

\* a member's call with progress >= 100 returns with the project completed
FullProgressCompletes ==
    \A t \in ProjReqs :
        (/\ Stepped(t)
         /\ ps_args[t].route = "update_progress"
         /\ ps_args[t].progress >= 100
         /\ ps_pc'[t] = "idle"
         /\ ps_result'[t] = 200) =>
            projects'[ps_args[t].project_id].status = "completed"

\* a member's call is never answered 403
MemberAccepted ==
    \A t \in ProjReqs :
        (/\ Stepped(t)
         /\ ps_pc[t] = "check_member"
         /\ IsMember(ps_args[t].project_id, ps_args[t].x_user_id)) =>
            /\ ps_pc'[t] = "write_progress"
            /\ ps_result'[t] = 0

C14_CompletionMonotonic ==
    [][/\ CompletedStays
       /\ StatusOnlyByFullProgress
       /\ LowProgressKeepsStatus
       /\ FullProgressCompletes
       /\ MemberAccepted
       /\ NonMemberRejected]_vars

\* a completed project whose progress a later call lowered below 100, a
\* member's call that was answered 200 and a non-member's answered 403
C14_Witness ==
    /\ \E i \in 1..Len(projects) :
          /\ projects[i].status = "completed"
          /\ projects[i].current_progress < 100
    /\ \E t \in ProjReqs : ps_pc[t] = "idle" /\ ps_result[t] = 200
    /\ \E t \in ProjReqs : ps_pc[t] = "idle" /\ ps_result[t] = 403

====
